---- MODULE Spec2Model ----
(***************************************************************************)
(* Model of the video providers of ai_content:                             *)
(*   src/src/ai_content/providers/aimlapi/video.py      AIMLAPIVideoProvider      *)
(*   src/src/ai_content/providers/pollinations/video.py PollinationsVideoProvider *)
(*                                                                         *)
(* Every generate call is a coroutine on one asyncio event loop.  A call   *)
(* is suspended at its awaits; the code between two awaits runs without    *)
(* interleaving (variable running).  The remote services, the transport    *)
(* client and the filesystem are the environment: an awaited operation     *)
(* returns any value of a small set or raises any exception of a small set.*)
(***************************************************************************)
EXTENDS Integers, Sequences, FiniteSets, TLC

(***************************************************************************)
(* Bounds of the model.                                                    *)
(***************************************************************************)
\* the clock runs from second 0 to second MaxClock
MaxClock == 2
\* longest byte string a download returns
MaxLen == 2

(***************************************************************************)
(* Optional values: None is the empty tuple, Some(x) the 1-tuple.          *)
(***************************************************************************)
None == <<>>
Some(x) == <<x>>

(***************************************************************************)
(* JSON values as the client hands them to the provider (Python objects):  *)
(* tagged tuples, a dict being a sequence of <<key, value>> pairs.         *)
(***************************************************************************)
JNull == <<"null">>
JStr(s) == <<"str", s>>
JInt(n) == <<"int", n>>
JList(elems) == <<"list", elems>>
JDict(items) == <<"dict", items>>

IsStr(v) == v[1] = "str"
IsList(v) == v[1] = "list"
IsDict(v) == v[1] = "dict"

\* Python truth value of an object
Truthy(v) ==
    CASE v[1] = "null" -> FALSE
      [] v[1] = "str"  -> v[2] # ""
      [] v[1] = "int"  -> v[2] # 0
      [] v[1] = "list" -> Len(v[2]) > 0
      [] v[1] = "dict" -> Len(v[2]) > 0

\* key in d
Has(d, k) == \E i \in 1..Len(d[2]) : d[2][i][1] = k
\* d[k], for a key that is present
Item(d, k) == d[2][CHOOSE i \in 1..Len(d[2]) : d[2][i][1] = k][2]
\* d.get(k)
Get(d, k) == IF Has(d, k) THEN Item(d, k) ELSE JNull
\* a or b
PyOr(a, b) == IF Truthy(a) THEN a ELSE b

(***************************************************************************)
(* str(int): decimal digits, with a sign for negative numbers.             *)
(***************************************************************************)
Digit == <<"0", "1", "2", "3", "4", "5", "6", "7", "8", "9">>

RECURSIVE NatToStr(_)
NatToStr(n) ==
    IF n < 10 THEN Digit[n + 1]
    ELSE NatToStr(n \div 10) \o Digit[(n % 10) + 1]

IntToStr(n) == IF n < 0 THEN "-" \o NatToStr(-n) ELSE NatToStr(n)

(***************************************************************************)
(* Exceptions.  An exception is a record of its class and its message;     *)
(* str(e) is the message.  CancelledError derives from BaseException.      *)
(***************************************************************************)
Exc(cls, msg) == [cls |-> cls, msg |-> msg]
CancelledError == Exc("CancelledError", "")
\* exceptions an awaited operation may raise
Exceptions == { Exc("TimeoutError", "Generation timed out"),
                Exc("ReadTimeout", "") }
\* exceptions mkdir, open and write may raise
FsExceptions == { Exc("OSError", "[Errno 28] No space left on device") }
AttributeError == Exc("AttributeError", "object has no attribute 'get'")
AuthenticationError(p) == Exc("AuthenticationError", "Authentication failed for " \o p)
HTTPStatusError(code) == Exc("HTTPStatusError", "Server error '" \o IntToStr(code) \o "'")

\* isinstance(e, Exception)
IsException(e) == e.cls # "CancelledError"
PyStr(e) == e.msg

(***************************************************************************)
(* Class attributes of the providers.                                      *)
(***************************************************************************)
Providers == {"aimlapi", "pollinations"}
max_duration_seconds == [aimlapi |-> 10, pollinations |-> 10]

(***************************************************************************)
(* The calls of the model and their inputs.                                *)
(***************************************************************************)
Calls == {"c1", "c2"}
Idle == "idle loop"
Durations == {3, 5, 15}
\* paths are tuples of components; "" and None select the default path
output_dir == <<"output">>
OutputPaths == {None, Some(<<>>), Some(<<"clips", "a.mp4">>)}

RECURSIVE SeqsUpTo(_, _)
SeqsUpTo(S, n) ==
    IF n = 0 THEN {<<>>}
    ELSE LET shorter == SeqsUpTo(S, n - 1)
         IN shorter \cup {Append(s, b) : s \in shorter, b \in S}
\* byte strings a download can return
Contents == SeqsUpTo({7, 9}, MaxLen)

VARIABLES
    call,       \* call[t]: the frame of generate call t (position and locals)
    request,    \* request[t]: the request of t in flight at the remote service
    returned,   \* returned[t]: the results t has returned to its caller
    fs,         \* the files: path -> content
    dirs,       \* the directories that exist
    clock,      \* UTC time in whole seconds
    running,    \* the call that holds the event loop, Idle when none does
    wrote,      \* wrote[t]: the paths t has opened for writing
    api_key,    \* settings.api_key of the Pollinations provider
    hist,       \* hist[t]: what has happened to call t, kept by SpecTrace
    elapsed,    \* elapsed[t]: polls of wait_for_completion, kept by SpecPoll
    given,      \* the status payload given to _extract_video_url (SpecExtract)
    yielded     \* what _extract_video_url did with it (SpecExtract)

vars == <<call, request, returned, fs, dirs, clock, running, wrote,
          api_key, hist, elapsed, given, yielded>>
\* the variables that the steps of a generate call leave alone
aside == <<api_key, hist, elapsed, given, yielded>>

(***************************************************************************)
(* GenerationResult: fields that a constructor call does not name are None.*)
(***************************************************************************)
GenerationResult(success, provider, file_path, data, generation_id, error) ==
    [success |-> success, provider |-> provider, content_type |-> "video",
     file_path |-> file_path, data |-> data,
     generation_id |-> generation_id, error |-> error]

(***************************************************************************)
(* Frames.  pc is the position of the coroutine:                           *)
(*   idle                  not called yet                                  *)
(*   submit, poll, download   AIMLAPI: suspended at the await of that name *)
(*   get, aclose           Pollinations: suspended in client.get, in the   *)
(*                         exit of "async with"                            *)
(*   save, write           between the last await and the return           *)
(*   done                  returned a result                               *)
(*   cancelled, raised     left generate by an exception                   *)
(***************************************************************************)
BlankFrame ==
    [pc |-> "idle", provider |-> "", output_path |-> None, generation_id |-> None, video_url |-> None,
     video_data |-> None, file_path |-> None, pending |-> None]

AimlapiAwaits == {"submit", "poll", "download"}
PollinationsAwaits == {"get", "aclose"}
\* the positions at which a call is suspended
AwaitPoints == AimlapiAwaits \cup PollinationsAwaits

\* no call has been made, no file exists
InitCalls ==
    /\ call = [t \in Calls |-> BlankFrame]
    /\ request = [t \in Calls |-> None]
    /\ returned = [t \in Calls |-> <<>>]
    /\ fs = <<>>
    /\ dirs = {<<>>}
    /\ clock = 0
    /\ running = Idle
    /\ wrote = [t \in Calls |-> {}]
    /\ hist = [t \in Calls |-> <<>>]
    /\ elapsed = [t \in Calls |-> 0]

Init ==
    /\ InitCalls
    /\ api_key = None
    /\ given = None
    /\ yielded = None

(***************************************************************************)
(* Paths and files.                                                        *)
(***************************************************************************)
Pad2(n) == Digit[(n \div 10) + 1] \o Digit[(n % 10) + 1]
\* datetime.now(timezone.utc).strftime("%Y%m%d_%H%M%S"), now counted in
\* seconds from 2024-01-01 00:00:00 UTC, within that day
Strftime(now) ==
    "20240101_" \o Pad2((now \div 3600) % 24) \o Pad2((now \div 60) % 60)
                \o Pad2(now % 60)

AimlapiDefaultPath(now) ==
    Append(output_dir, "aimlapi_" \o Strftime(now) \o ".mp4")
PollinationsDefaultPath(now) ==
    Append(output_dir, "pollinations_" \o Strftime(now) \o ".mp4")

\* if output_path: an output_path that is None or empty is not used
\* variant: if output_path is not None
PathGivenNotNone(output_path) == output_path # None
\* if output_path
PathGiven(output_path) == output_path # None /\ output_path[1] # <<>>

\* the directories mkdir(parents=True, exist_ok=True) makes exist
Parents(path) == {SubSeq(path, 1, k) : k \in 0..(Len(path) - 1)}

\* the files after content was written to path
FsWrite(files, path, content) ==
    [q \in (DOMAIN files) \cup {path} |-> IF q = path THEN content ELSE files[q]]

(***************************************************************************)
(* Leaving generate.                                                       *)
(***************************************************************************)
\* the frame of a call that has left generate: the locals are gone, the
\* arguments stay known to the caller
Left(t, pc) ==
    [BlankFrame EXCEPT !.pc = pc, !.provider = call[t].provider,
                       !.output_path = call[t].output_path]

\* return r
Return(t, r) ==
    /\ call' = [call EXCEPT ![t] = Left(t, "done")]
    /\ returned' = [returned EXCEPT ![t] = Append(@, r)]
    /\ running' = Idle

\* exception e leaves generate
Propagate(t, e) ==
    /\ call' = [call EXCEPT ![t] =
                  Left(t, IF e = CancelledError THEN "cancelled" ELSE "raised")]
    /\ returned' = returned
    /\ running' = Idle

(***************************************************************************)
(* AIMLAPIVideoProvider                                                    *)
(***************************************************************************)
\* the payload of the generation request
AimlapiPayload(duration_seconds) ==
    [duration |-> IF duration_seconds > 5 THEN 10 ELSE 5]

AimlapiNoIdResult ==
    GenerationResult(FALSE, "aimlapi", None, None, None,
                     Some("No generation ID in response: {...}"))

\* variant: the missing-URL result without the ID
AimlapiNoUrlResultNoId(generation_id) ==
    GenerationResult(FALSE, "aimlapi", None, None, None,
                     Some("No video URL in response"))

AimlapiNoUrlResult(generation_id) ==
    GenerationResult(FALSE, "aimlapi", None, None, Some(generation_id),
                     Some("No video URL in response"))

\* variant: the success result is built without data=video_data
AimlapiSuccessResultNoData(file_path, video_data, generation_id) ==
    GenerationResult(TRUE, "aimlapi", Some(file_path), None,
                     Some(generation_id), None)

AimlapiSuccessResult(file_path, video_data, generation_id) ==
    GenerationResult(TRUE, "aimlapi", Some(file_path), Some(video_data),
                     Some(generation_id), None)

AimlapiErrorResult(e) ==
    GenerationResult(FALSE, "aimlapi", None, None, None, Some(PyStr(e)))

\* variant: the except clause names the transport's timeouts only
AimlapiExceptNarrow(t, e) ==
    IF e.cls \in {"TimeoutError", "ReadTimeout"}
    THEN Return(t, AimlapiErrorResult(e))
    ELSE Propagate(t, e)

\* except Exception as e: an exception e raised inside the try block
\* variant: after an exception the job is submitted again
AimlapiExceptResubmits(t, e) ==
    IF IsException(e)
    THEN /\ call' = [call EXCEPT ![t].pc = "submit"]
         /\ running' = Idle
         /\ UNCHANGED returned
    ELSE Propagate(t, e)

AimlapiExcept(t, e) ==
    IF IsException(e)
    THEN Return(t, AimlapiErrorResult(e))
    ELSE Propagate(t, e)

\* the status payload does not let the extraction finish: output[0] is
\* neither a string nor an object with get
ExtractRaises(status) ==
    /\ ~Has(status, "url")
    /\ ~Has(status, "video_url")
    /\ LET output == Get(status, "output")
       IN /\ IsList(output)
          /\ Truthy(output)
          /\ ~IsStr(output[2][1])
          /\ ~IsDict(output[2][1])

_extract_video_url(status) ==
    IF Has(status, "url") THEN Item(status, "url")
    ELSE IF Has(status, "video_url") THEN Item(status, "video_url")
    ELSE LET output == Get(status, "output")
         IN IF IsList(output) /\ Truthy(output)
            THEN IF IsStr(output[2][1]) THEN output[2][1]
                 ELSE Get(output[2][1], "url")
            ELSE IF IsDict(output)
                 THEN PyOr(Get(output, "url"), Get(output, "video_url"))
                 ELSE JNull

\* the responses of submit_generation
SubmitResponses ==
    { JDict(<< <<"id", JStr("abc123")>> >>),
      JDict(<< <<"generation_id", JStr("gen7")>> >>),
      JDict(<< <<"id", JStr("abc123")>>, <<"generation_id", JStr("gen7")>> >>),
      JDict(<< <<"id", JNull>>, <<"generation_id", JStr("gen7")>> >>),
      JDict(<< <<"status", JStr("queued")>> >>),
      JDict(<< >>) }

Url == JStr("http://x/file.mp4")
\* the status payloads wait_for_completion returns
StatusPayloads ==
    { JDict(<< <<"status", JStr("succeeded")>>, <<"url", Url>> >>),
      JDict(<< <<"video_url", Url>> >>),
      JDict(<< <<"output", JList(<<Url>>)>> >>),
      JDict(<< <<"output", JList(<< JDict(<< <<"url", Url>> >>) >>)>> >>),
      JDict(<< <<"output", JDict(<< <<"url", Url>> >>)>> >>),
      JDict(<< <<"output", JDict(<< <<"video_url", Url>> >>)>> >>),
      JDict(<< <<"url", JNull>>, <<"video_url", Url>> >>),
      JDict(<< <<"output", JList(<< >>)>> >>),
      JDict(<< <<"output", JList(<< JInt(42) >>)>> >>),
      JDict(<< <<"output", JStr("http://x/file.mp4")>> >>),
      JDict(<< <<"status", JStr("succeeded")>> >>) }

\* generate(prompt, duration_seconds=..., output_path=...) up to the await
\* of submit_generation
AimlapiGenerate(t, duration_seconds, output_path) ==
    /\ call[t].pc = "idle"
    /\ running = Idle
    /\ call' = [call EXCEPT ![t] = [BlankFrame EXCEPT
                  !.pc = "submit", !.provider = "aimlapi",
                  !.output_path = output_path]]
    /\ request' = [request EXCEPT ![t] = Some(AimlapiPayload(duration_seconds))]
    /\ UNCHANGED <<returned, fs, dirs, clock, running, wrote>>

\* variant: generation_id is looked up before id
AimlapiSubmitReturnsOtherOrder(t, result) ==
    /\ call[t].pc = "submit"
    /\ running = Idle
    /\ request' = [request EXCEPT ![t] = None]
    /\ LET generation_id == PyOr(Get(result, "generation_id"), Get(result, "id"))
       IN IF ~Truthy(generation_id)
          THEN Return(t, AimlapiNoIdResult)
          ELSE /\ call' = [call EXCEPT ![t].pc = "poll",
                                       ![t].generation_id = Some(generation_id)]
               /\ UNCHANGED <<returned, running>>
    /\ UNCHANGED <<fs, dirs, clock, wrote>>

\* submit_generation returns result
AimlapiSubmitReturns(t, result) ==
    /\ call[t].pc = "submit"
    /\ running = Idle
    /\ request' = [request EXCEPT ![t] = None]
    /\ LET generation_id == PyOr(Get(result, "id"), Get(result, "generation_id"))
       IN IF ~Truthy(generation_id)
          THEN Return(t, AimlapiNoIdResult)
          ELSE /\ call' = [call EXCEPT ![t].pc = "poll",
                                       ![t].generation_id = Some(generation_id)]
               /\ UNCHANGED <<returned, running>>
    /\ UNCHANGED <<fs, dirs, clock, wrote>>

\* variant: the output file is opened before the download is awaited
AimlapiPollReturnsOpensFile(t, status) ==
    /\ call[t].pc = "poll"
    /\ running = Idle
    /\ IF ExtractRaises(status)
       THEN AimlapiExcept(t, AttributeError) /\ UNCHANGED <<fs, wrote>>
       ELSE LET video_url == _extract_video_url(status)
                file_path == IF PathGiven(call[t].output_path)
                             THEN call[t].output_path[1]
                             ELSE AimlapiDefaultPath(clock)
            IN IF ~Truthy(video_url)
               THEN /\ Return(t, AimlapiNoUrlResult(call[t].generation_id[1]))
                    /\ UNCHANGED <<fs, wrote>>
               ELSE /\ call' = [call EXCEPT ![t].pc = "download",
                                            ![t].video_url = Some(video_url)]
                    /\ fs' = FsWrite(fs, file_path, <<>>)
                    /\ wrote' = [wrote EXCEPT ![t] = @ \cup {file_path}]
                    /\ UNCHANGED <<returned, running>>
    /\ UNCHANGED <<request, dirs, clock>>

\* wait_for_completion returns status
AimlapiPollReturns(t, status) ==
    /\ call[t].pc = "poll"
    /\ running = Idle
    /\ IF ExtractRaises(status)
       THEN AimlapiExcept(t, AttributeError)
       ELSE LET video_url == _extract_video_url(status)
            IN IF ~Truthy(video_url)
               THEN Return(t, AimlapiNoUrlResult(call[t].generation_id[1]))
               ELSE /\ call' = [call EXCEPT ![t].pc = "download",
                                            ![t].video_url = Some(video_url)]
                    /\ UNCHANGED <<returned, running>>
    /\ UNCHANGED <<request, fs, dirs, clock, wrote>>

\* download_file returns video_data; the call keeps the event loop
\* variant: the downloaded bytes are not kept
AimlapiDownloadReturnsKeepsNothing(t, video_data) ==
    /\ call[t].pc = "download"
    /\ running = Idle
    /\ call' = [call EXCEPT ![t].pc = "save", ![t].video_data = Some(<<>>)]
    /\ running' = t
    /\ UNCHANGED <<request, returned, fs, dirs, clock, wrote>>

AimlapiDownloadReturns(t, video_data) ==
    /\ call[t].pc = "download"
    /\ running = Idle
    /\ call' = [call EXCEPT ![t].pc = "save", ![t].video_data = Some(video_data)]
    /\ running' = t
    /\ UNCHANGED <<request, returned, fs, dirs, clock, wrote>>

\* submit_generation, wait_for_completion or download_file raises e
AimlapiAwaitRaises(t, e) ==
    /\ call[t].pc \in AimlapiAwaits
    /\ running = Idle
    /\ request' = [request EXCEPT ![t] = None]
    /\ AimlapiExcept(t, e)
    /\ UNCHANGED <<fs, dirs, clock, wrote>>

(***************************************************************************)
(* PollinationsVideoProvider                                               *)
(***************************************************************************)
\* the values of settings.api_key: unset, empty, set
ApiKeys == {None, Some(""), Some("secret")}
\* if self.settings.api_key
KeySet == api_key # None /\ api_key[1] # ""

\* variant: the Authorization header is added whenever a key is not None
headersUnlessNone ==
    IF api_key # None
    THEN [ContentType |-> "application/json",
          Authorization |-> "Bearer " \o api_key[1]]
    ELSE [ContentType |-> "application/json"]

\* self.headers
headers ==
    IF KeySet
    THEN [ContentType |-> "application/json",
          Authorization |-> "Bearer " \o api_key[1]]
    ELSE [ContentType |-> "application/json"]

\* the query parameters of the GET request
PollinationsParams(duration_seconds) ==
    IF KeySet
    THEN [duration |-> IntToStr(duration_seconds), nologo |-> "true"]
    ELSE [duration |-> IntToStr(duration_seconds)]

PollinationsSuccessResult(file_path, video_data) ==
    GenerationResult(TRUE, "pollinations", Some(file_path), Some(video_data),
                     None, None)

PollinationsErrorResult(e) ==
    GenerationResult(FALSE, "pollinations", None, None, None, Some(PyStr(e)))

\* variant: the except clause logs the exception and falls off the end of
\* generate
PollinationsExceptNoReturn(t, e) ==
    IF IsException(e)
    THEN /\ call' = [call EXCEPT ![t] = Left(t, "done")]
         /\ returned' = returned
         /\ running' = Idle
    ELSE Propagate(t, e)

\* except Exception as e: an exception e raised inside the try block
PollinationsExcept(t, e) ==
    IF IsException(e)
    THEN Return(t, PollinationsErrorResult(e))
    ELSE Propagate(t, e)

\* the HTTP status codes of the responses
StatusCodes == {200, 401, 500}
\* response.raise_for_status() raises
RaiseForStatus(status_code) == ~(status_code >= 200 /\ status_code < 300)

\* generate(prompt, duration_seconds=..., output_path=...) up to the await
\* of client.get
PollinationsGenerate(t, duration_seconds, output_path) ==
    /\ call[t].pc = "idle"
    /\ running = Idle
    /\ call' = [call EXCEPT ![t] = [BlankFrame EXCEPT
                  !.pc = "get", !.provider = "pollinations",
                  !.output_path = output_path]]
    /\ request' = [request EXCEPT ![t] =
                      Some([params |-> PollinationsParams(duration_seconds),
                            headers |-> headers])]
    /\ UNCHANGED <<returned, fs, dirs, clock, running, wrote>>

\* variant: the body of the response is saved before its status is looked at
PollinationsGetReturnsSavesBody(t, status_code, content) ==
    /\ call[t].pc = "get"
    /\ running = Idle
    /\ request' = [request EXCEPT ![t] = None]
    /\ call' = [call EXCEPT
                  ![t].pc = "aclose",
                  ![t].pending =
                      IF status_code = 401
                      THEN Some(AuthenticationError("pollinations"))
                      ELSE IF RaiseForStatus(status_code)
                           THEN Some(HTTPStatusError(status_code))
                           ELSE None,
                  ![t].video_data =
                      IF status_code # 401 /\ ~RaiseForStatus(status_code)
                      THEN Some(content) ELSE None]
    /\ fs' = FsWrite(fs, PollinationsDefaultPath(clock), content)
    /\ wrote' = [wrote EXCEPT ![t] = @ \cup {PollinationsDefaultPath(clock)}]
    /\ UNCHANGED <<returned, dirs, clock, running>>

\* client.get returns a response; the body of "async with" runs to its end
\* or to its raise, and the exit of "async with" awaits the close of the client
PollinationsGetReturns(t, status_code, content) ==
    /\ call[t].pc = "get"
    /\ running = Idle
    /\ request' = [request EXCEPT ![t] = None]
    /\ call' = [call EXCEPT
                  ![t].pc = "aclose",
                  ![t].pending =
                      IF status_code = 401
                      THEN Some(AuthenticationError("pollinations"))
                      ELSE IF RaiseForStatus(status_code)
                           THEN Some(HTTPStatusError(status_code))
                           ELSE None,
                  ![t].video_data =
                      IF status_code # 401 /\ ~RaiseForStatus(status_code)
                      THEN Some(content) ELSE None]
    /\ UNCHANGED <<returned, fs, dirs, clock, running, wrote>>

\* client.get raises e
PollinationsGetRaises(t, e) ==
    /\ call[t].pc = "get"
    /\ running = Idle
    /\ request' = [request EXCEPT ![t] = None]
    /\ call' = [call EXCEPT ![t].pc = "aclose", ![t].pending = Some(e)]
    /\ UNCHANGED <<returned, fs, dirs, clock, running, wrote>>

\* the exit of "async with" completes: a pending exception goes on to the
\* except clause, otherwise the call goes on to save and keeps the event loop
PollinationsAcloseReturns(t) ==
    /\ call[t].pc = "aclose"
    /\ running = Idle
    /\ IF call[t].pending # None
       THEN PollinationsExcept(t, call[t].pending[1])
       ELSE /\ call' = [call EXCEPT ![t].pc = "save"]
            /\ running' = t
            /\ UNCHANGED returned
    /\ UNCHANGED <<request, fs, dirs, clock, wrote>>

\* the exit of "async with" raises e
PollinationsAcloseRaises(t, e) ==
    /\ call[t].pc = "aclose"
    /\ running = Idle
    /\ PollinationsExcept(t, e)
    /\ UNCHANGED <<request, fs, dirs, clock, wrote>>

(***************************************************************************)
(* Saving: the code after the last await, the same in both providers.      *)
(***************************************************************************)
Except(t, e) ==
    IF call[t].provider = "aimlapi" THEN AimlapiExcept(t, e)
    ELSE PollinationsExcept(t, e)

\* resolve file_path, make its directory, open the file for writing
SaveStep(t, default_path) ==
    /\ call[t].pc = "save"
    /\ running = t
    /\ LET file_path == IF PathGiven(call[t].output_path)
                        THEN call[t].output_path[1]
                        ELSE default_path
       IN \/ \* mkdir raises
             \E e \in FsExceptions :
                /\ Except(t, e)
                /\ UNCHANGED <<fs, dirs, wrote>>
          \/ \* open raises
             \E e \in FsExceptions :
                /\ dirs' = dirs \cup Parents(file_path)
                /\ Except(t, e)
                /\ UNCHANGED <<fs, wrote>>
          \/ \* the file is open and empty
             /\ dirs' = dirs \cup Parents(file_path)
             /\ fs' = FsWrite(fs, file_path, <<>>)
             /\ wrote' = [wrote EXCEPT ![t] = @ \cup {file_path}]
             /\ call' = [call EXCEPT ![t].pc = "write",
                                     ![t].file_path = Some(file_path)]
             /\ UNCHANGED <<returned, running>>
    /\ UNCHANGED <<request, clock>>

AimlapiSave(t) ==
    /\ call[t].provider = "aimlapi"
    /\ SaveStep(t, AimlapiDefaultPath(clock))

PollinationsSave(t) ==
    /\ call[t].provider = "pollinations"
    /\ SaveStep(t, PollinationsDefaultPath(clock))

\* variant: a write that stops early is taken for a complete one
WriteStepShort(t, result) ==
    /\ call[t].pc = "write"
    /\ running = t
    /\ LET file_path == call[t].file_path[1]
           video_data == call[t].video_data[1]
       IN \E k \in 0..Len(video_data) :
             /\ fs' = FsWrite(fs, file_path, SubSeq(video_data, 1, k))
             /\ Return(t, result)
    /\ UNCHANGED <<request, dirs, clock, wrote>>

\* write video_data and return the result, or fail after the first k bytes
WriteStep(t, result) ==
    /\ call[t].pc = "write"
    /\ running = t
    /\ LET file_path == call[t].file_path[1]
           video_data == call[t].video_data[1]
       IN \/ /\ fs' = FsWrite(fs, file_path, video_data)
             /\ Return(t, result)
          \/ \E k \in 0..(Len(video_data) - 1), e \in FsExceptions :
                /\ fs' = FsWrite(fs, file_path, SubSeq(video_data, 1, k))
                /\ Except(t, e)
    /\ UNCHANGED <<request, dirs, clock, wrote>>

AimlapiWrite(t) ==
    /\ call[t].provider = "aimlapi"
    /\ call[t].pc = "write"
    /\ WriteStep(t, AimlapiSuccessResult(call[t].file_path[1],
                       call[t].video_data[1], call[t].generation_id[1]))

PollinationsWrite(t) ==
    /\ call[t].provider = "pollinations"
    /\ call[t].pc = "write"
    /\ WriteStep(t, PollinationsSuccessResult(call[t].file_path[1],
                       call[t].video_data[1]))

(***************************************************************************)
(* The caller cancels call t: CancelledError is raised at the await at     *)
(* which t is suspended.                                                   *)
(***************************************************************************)
Cancel(t) ==
    /\ call[t].pc \in AwaitPoints
    /\ running = Idle
    /\ request' = [request EXCEPT ![t] = None]
    /\ IF call[t].pc = "get"
       THEN /\ call' = [call EXCEPT ![t].pc = "aclose",
                                    ![t].pending = Some(CancelledError),
                                    ![t].video_data = None]
            /\ UNCHANGED <<returned, running>>
       ELSE Except(t, CancelledError)
    /\ UNCHANGED <<fs, dirs, clock, wrote>>

\* a second passes
Tick ==
    /\ clock < MaxClock
    /\ clock' = clock + 1
    /\ UNCHANGED <<call, request, returned, fs, dirs, running, wrote>>

Next ==
    \/ \E t \in Calls, d \in Durations, o \in OutputPaths :
          AimlapiGenerate(t, d, o) /\ UNCHANGED aside
    \/ \E t \in Calls, r \in SubmitResponses :
          AimlapiSubmitReturns(t, r) /\ UNCHANGED aside
    \/ \E t \in Calls, s \in StatusPayloads :
          AimlapiPollReturns(t, s) /\ UNCHANGED aside
    \/ \E t \in Calls, b \in Contents :
          AimlapiDownloadReturns(t, b) /\ UNCHANGED aside
    \/ \E t \in Calls, e \in Exceptions :
          AimlapiAwaitRaises(t, e) /\ UNCHANGED aside
    \/ \E t \in Calls : AimlapiSave(t) /\ UNCHANGED aside
    \/ \E t \in Calls : AimlapiWrite(t) /\ UNCHANGED aside
    \/ \E t \in Calls, d \in Durations, o \in OutputPaths :
          PollinationsGenerate(t, d, o) /\ UNCHANGED aside
    \/ \E t \in Calls, c \in StatusCodes, b \in Contents :
          PollinationsGetReturns(t, c, b) /\ UNCHANGED aside
    \/ \E t \in Calls, e \in Exceptions :
          PollinationsGetRaises(t, e) /\ UNCHANGED aside
    \/ \E t \in Calls : PollinationsAcloseReturns(t) /\ UNCHANGED aside
    \/ \E t \in Calls, e \in Exceptions :
          PollinationsAcloseRaises(t, e) /\ UNCHANGED aside
    \/ \E t \in Calls : PollinationsSave(t) /\ UNCHANGED aside
    \/ \E t \in Calls : PollinationsWrite(t) /\ UNCHANGED aside
    \/ \E t \in Calls : Cancel(t) /\ UNCHANGED aside
    \/ Tick /\ UNCHANGED aside

Spec == Init /\ [][Next]_vars

(***************************************************************************)
(* SpecTrace follows one generate call, for every setting of the API key,  *)
(* and keeps in hist[t] what happened to it: one entry                     *)
(* <<event, value, position after the event>> per step.  The value is the  *)
(* request sent (generate), the response, payload, bytes or exception      *)
(* received, the path opened (save), the content of the file (write).      *)
(***************************************************************************)
TraceCalls == {"c1"}

Log(t, event, value) ==
    /\ hist' = [hist EXCEPT ![t] = Append(@, <<event, value, call'[t].pc>>)]
    /\ UNCHANGED <<api_key, elapsed, given, yielded>>

InitTrace ==
    /\ InitCalls
    /\ api_key \in ApiKeys
    /\ given = None
    /\ yielded = None

NextTrace ==
    \/ \E t \in TraceCalls, d \in Durations, o \in OutputPaths :
          AimlapiGenerate(t, d, o) /\ Log(t, "generate", request'[t][1])
    \/ \E t \in TraceCalls, r \in SubmitResponses :
          AimlapiSubmitReturns(t, r) /\ Log(t, "submitted", r)
    \/ \E t \in TraceCalls, s \in StatusPayloads :
          AimlapiPollReturns(t, s) /\ Log(t, "polled", s)
    \/ \E t \in TraceCalls, b \in Contents :
          AimlapiDownloadReturns(t, b) /\ Log(t, "downloaded", b)
    \/ \E t \in TraceCalls, e \in Exceptions :
          AimlapiAwaitRaises(t, e) /\ Log(t, "raised", e)
    \/ \E t \in TraceCalls :
          AimlapiSave(t) /\ Log(t, "save", call'[t].file_path)
    \/ \E t \in TraceCalls :
          AimlapiWrite(t) /\ Log(t, "write", fs'[call[t].file_path[1]])
    \/ \E t \in TraceCalls, d \in Durations, o \in OutputPaths :
          PollinationsGenerate(t, d, o) /\ Log(t, "generate", request'[t][1])
    \/ \E t \in TraceCalls, c \in StatusCodes, b \in Contents :
          PollinationsGetReturns(t, c, b) /\ Log(t, "got", <<c, b>>)
    \/ \E t \in TraceCalls, e \in Exceptions :
          PollinationsGetRaises(t, e) /\ Log(t, "raised", e)
    \/ \E t \in TraceCalls :
          PollinationsAcloseReturns(t) /\ Log(t, "closed", None)
    \/ \E t \in TraceCalls, e \in Exceptions :
          PollinationsAcloseRaises(t, e) /\ Log(t, "raised", e)
    \/ \E t \in TraceCalls :
          PollinationsSave(t) /\ Log(t, "save", call'[t].file_path)
    \/ \E t \in TraceCalls :
          PollinationsWrite(t) /\ Log(t, "write", fs'[call[t].file_path[1]])
    \/ \E t \in TraceCalls : Cancel(t) /\ Log(t, "cancel", None)
    \/ Tick /\ UNCHANGED aside

SpecTrace == InitTrace /\ [][NextTrace]_vars

(***************************************************************************)
(* Properties.                                                             *)
(***************************************************************************)
Positions ==
    {"idle", "submit", "poll", "download", "get", "aclose", "save", "write",
     "done", "cancelled", "raised"}

TypeOK ==
    /\ \A t \in Calls : call[t].pc \in Positions
    /\ \A t \in Calls : call[t].provider \in Providers \cup {""}
    /\ clock \in 0..MaxClock
    /\ running \in Calls \cup {Idle}
    /\ \A t \in Calls : wrote[t] \subseteq DOMAIN fs

\* the results call t has returned
ResultsOf(t) == {returned[t][i] : i \in 1..Len(returned[t])}
\* call t has returned a successful result
Succeeded(t) ==
    call[t].pc = "done" /\ Len(returned[t]) = 1 /\ returned[t][1].success
\* call t has returned a failed result
Failed(t) ==
    call[t].pc = "done" /\ Len(returned[t]) = 1 /\ ~returned[t][1].success

\* C1: in every result that a generate call of either provider has returned,
\* success implies that file_path and data are present and error is absent,
\* and failure implies that error is present and file_path and data are absent.
C1_ResultShape ==
    \A t \in Calls : \A r \in ResultsOf(t) :
        /\ r.success =>
              r.file_path # None /\ r.data # None /\ r.error = None
        /\ ~r.success =>
              r.error # None /\ r.file_path = None /\ r.data = None

\* one call of each provider has returned, one with success, one with failure
C1_Witness ==
    \E t, u \in Calls :
        /\ Succeeded(t) /\ call[t].provider = "aimlapi"
        /\ Failed(u) /\ call[u].provider = "pollinations"

\* C2: no exception raised by submit, poll, extraction, download or persist
\* leaves generate: no call ends by raising, a call whose step raised has
\* returned a failed result.
C2_NoExceptionEscapes ==
    \A t \in Calls : call[t].pc # "raised"

\* the extraction raised in one call, the write in the other, and both calls
\* returned a failed result carrying the message of the exception
C2_Witness ==
    \E t, u \in Calls :
        /\ Failed(t) /\ returned[t][1].error = Some(PyStr(AttributeError))
        /\ Failed(u) /\ wrote[u] # {}
        /\ \E e \in FsExceptions : returned[u][1].error = Some(PyStr(e))

\* C3: the error of every failed result is a non-empty string.
C3_ErrorNonEmpty ==
    \A t \in Calls : \A r \in ResultsOf(t) :
        ~r.success => r.error # None /\ r.error[1] # ""

\* C4: in the step in which a call returns a successful result, the file at
\* the result's file_path exists and holds exactly the result's data, which
\* are the bytes the download returned.
C4_FileHoldsData ==
    [][\A t \in Calls :
          (Len(returned[t]) = 0 /\ Len(returned'[t]) = 1
              /\ returned'[t][1].success)
          => LET r == returned'[t][1]
             IN /\ r.file_path # None /\ r.data # None
                /\ r.file_path[1] \in DOMAIN fs'
                /\ fs'[r.file_path[1]] = r.data[1]
                /\ call[t].video_data = Some(r.data[1])]_vars

\* a call has returned success with the longest download, and the file holds it
C4_Witness ==
    \E t \in Calls :
        /\ Succeeded(t)
        /\ Len(returned[t][1].data[1]) = MaxLen
        /\ fs[returned[t][1].file_path[1]] = returned[t][1].data[1]

\* C5: two successful generate calls on the same provider with the same
\* options and no explicit output_path have distinct file paths.
C5_DistinctDefaultPaths ==
    \A t, u \in Calls :
        (/\ t # u
         /\ Succeeded(t) /\ Succeeded(u)
         /\ call[t].provider = call[u].provider
         /\ call[t].output_path = None /\ call[u].output_path = None)
        => returned[t][1].file_path # returned[u][1].file_path

\* C6: once all calls have left generate, the file at the file_path of every
\* successful result holds that result's data, whenever the calls were not
\* given the same explicit output_path.
C6_NoInterference ==
    (/\ \A t \in Calls : call[t].pc \in {"done", "cancelled", "raised"}
     /\ \A t, u \in Calls :
           (t # u /\ PathGiven(call[t].output_path))
           => call[t].output_path # call[u].output_path)
    => \A t \in Calls :
          Succeeded(t)
          => LET r == returned[t][1]
             IN /\ r.file_path[1] \in DOMAIN fs
                /\ fs[r.file_path[1]] = r.data[1]

\* C7: a call that is suspended at an await, or that was cancelled there, has
\* opened no file for writing: the file is opened only after the last await,
\* and no await lies between the opening and the end of the write.
C7_CancelLeavesNoFile ==
    \A t \in Calls :
        call[t].pc \in AwaitPoints \cup {"cancelled"} => wrote[t] = {}

\* a call of each provider was cancelled
C7_Witness ==
    \E t, u \in Calls :
        /\ call[t].pc = "cancelled" /\ call[t].provider = "aimlapi"
        /\ call[u].pc = "cancelled" /\ call[u].provider = "pollinations"

\* C8: a call that ends at a step before persist (it goes from an await to
\* its return) returns a failed result, has opened no file for writing and
\* leaves the files as they were.
C8_EarlyFailureNoFile ==
    [][\A t \in Calls :
          (call[t].pc \in AwaitPoints /\ call'[t].pc = "done")
          => /\ Len(returned'[t]) = 1
             /\ ~returned'[t][1].success
             /\ wrote'[t] = {}
             /\ fs' = fs]_vars

\* a Pollinations call answered with status 500 and an AIMLAPI call without
\* a generation ID have both returned failure and written nothing
C8_Witness ==
    \E t, u \in Calls :
        /\ Failed(t) /\ wrote[t] = {}
        /\ returned[t][1].error = Some(PyStr(HTTPStatusError(500)))
        /\ Failed(u) /\ wrote[u] = {}
        /\ returned[u][1] = AimlapiNoIdResult

\* C9: a call has returned exactly one result when it has ended without
\* being cancelled, and no result before that.
C9_ExactlyOneResult ==
    \A t \in Calls :
        /\ call[t].pc # "raised"
        /\ Len(returned[t]) = IF call[t].pc = "done" THEN 1 ELSE 0

\* both calls have ended, one with a successful and one with a failed result
C9_Witness ==
    \E t, u \in Calls :
        /\ Succeeded(t) /\ call[t].provider = "pollinations"
        /\ Failed(u) /\ call[u].provider = "pollinations"

\* the duration that the request of call t carries
SentDuration(t) ==
    IF call[t].provider = "aimlapi"
    THEN request[t][1].duration
    ELSE CHOOSE n \in 0..99 : IntToStr(n) = request[t][1].params.duration

\* C10: the duration in every request in flight is at most the
\* max_duration_seconds of the provider.
C10_DurationClamped ==
    \A t \in Calls :
        request[t] # None
        => SentDuration(t) <= max_duration_seconds[call[t].provider]

(***************************************************************************)
(* Properties of one call, over its history (SpecTrace).                   *)
(***************************************************************************)
\* the events of call t and the positions it has been at, in order
EventsOf(t) == [i \in 1..Len(hist[t]) |-> hist[t][i][1]]
PositionsOf(t) == [i \in 1..Len(hist[t]) |-> hist[t][i][3]]
\* call t has been at position pc
Visited(t, pc) == \E i \in 1..Len(hist[t]) : hist[t][i][3] = pc
\* the last event of call t is event
EndsWith(t, event) == Len(hist[t]) > 0 /\ hist[t][Len(hist[t])][1] = event

\* a JSON value that can serve as an ID or a URL: a non-empty string
Usable(v) == v[1] = "str" /\ v[2] # ""
\* the ID that a submission response holds: id, otherwise generation_id
HeldId(r) ==
    IF Has(r, "id") /\ Usable(Item(r, "id")) THEN Some(Item(r, "id"))
    ELSE IF Has(r, "generation_id") /\ Usable(Item(r, "generation_id"))
         THEN Some(Item(r, "generation_id"))
         ELSE None

\* C11: after a submission response that holds an ID (a non-empty id,
\* otherwise a non-empty generation_id) the call polls with that ID and every
\* result that carries an ID carries that one; after a response that holds
\* neither, the call has ended with a failed result and has not polled,
\* downloaded or opened a file.
C11_IdFromResponse ==
    \A t \in Calls : \A i \in 1..Len(hist[t]) :
        hist[t][i][1] = "submitted"
        => LET r == hist[t][i][2]
           IN IF HeldId(r) # None
              THEN /\ hist[t][i][3] = "poll"
                   /\ call[t].pc \in {"poll", "download", "save", "write"}
                         => call[t].generation_id = HeldId(r)
                   /\ \A res \in ResultsOf(t) :
                         res.generation_id # None => res.generation_id = HeldId(r)
              ELSE /\ i = Len(hist[t])
                   /\ Failed(t)
                   /\ ~Visited(t, "poll") /\ ~Visited(t, "download")
                   /\ wrote[t] = {} /\ fs = <<>>

\* the response held both id and generation_id, and the call polls with id
C11_Witness ==
    \E t \in Calls :
        /\ EndsWith(t, "submitted")
        /\ Has(hist[t][2][2], "id") /\ Has(hist[t][2][2], "generation_id")
        /\ Usable(Item(hist[t][2][2], "id"))
        /\ call[t].pc = "poll"
        /\ call[t].generation_id = Some(JStr("abc123"))

(***************************************************************************)
(* _extract_video_url on its own: one status payload is given, and the     *)
(* function is applied to it once.                                         *)
(***************************************************************************)
\* the entries a payload may hold under url, under video_url and under output;
\* each place holds its own URL, so that a returned URL tells where it is from
UrlEntries ==
    { << >>,
      << <<"url", JNull>> >>,
      << <<"url", JStr("")>> >>,
      << <<"url", JStr("http://x/top.mp4")>> >> }
VideoUrlEntries ==
    { << >>,
      << <<"video_url", JNull>> >>,
      << <<"video_url", JStr("http://x/top_video.mp4")>> >> }
OutputEntries ==
    { << >>,
      << <<"output", JNull>> >>,
      << <<"output", JList(<< >>)>> >>,
      << <<"output", JList(<< JStr("http://x/first.mp4"), JStr("http://x/second.mp4") >>)>> >>,
      << <<"output", JList(<< JDict(<< <<"url", JStr("http://x/first_obj.mp4")>> >>) >>)>> >>,
      << <<"output", JList(<< JInt(42) >>)>> >>,
      << <<"output", JList(<< JNull >>)>> >>,
      << <<"output", JDict(<< >>)>> >>,
      << <<"output", JDict(<< <<"url", JStr("http://x/out.mp4")>> >>)>> >>,
      << <<"output", JDict(<< <<"video_url", JStr("http://x/out_video.mp4")>> >>)>> >>,
      << <<"output", JDict(<< <<"url", JNull>>,
                              <<"video_url", JStr("http://x/out_video.mp4")>> >>)>> >>,
      << <<"output", JStr("http://x/bare.mp4")>> >> }
ExtractInputs ==
    { JDict(u \o v \o o) : u \in UrlEntries, v \in VideoUrlEntries, o \in OutputEntries }

InitExtract ==
    /\ InitCalls
    /\ api_key = None
    /\ given \in { Some(status) : status \in ExtractInputs }
    /\ yielded = None

\* self._extract_video_url(status)
Extract ==
    /\ given # None
    /\ yielded = None
    /\ yielded' = IF ExtractRaises(given[1])
                  THEN Some(<<"raise", AttributeError>>)
                  ELSE Some(<<"return", _extract_video_url(given[1])>>)
    /\ UNCHANGED <<call, request, returned, fs, dirs, clock, running, wrote,
                   api_key, hist, elapsed, given>>

NextExtract == Extract
SpecExtract == InitExtract /\ [][NextExtract]_vars

\* the URLs that the documented shapes of a payload hold, in the order top-level
\* url, top-level video_url, output as a list (a string, or an object with url,
\* as first element), output as an object (url, then video_url)
ShapeUrl(d, k) == IF Has(d, k) /\ Usable(Item(d, k)) THEN <<Item(d, k)>> ELSE << >>
ListShapeUrl(output) ==
    IF IsList(output) /\ Len(output[2]) > 0
    THEN IF Usable(output[2][1]) THEN <<output[2][1]>>
         ELSE IF IsDict(output[2][1]) THEN ShapeUrl(output[2][1], "url") ELSE << >>
    ELSE << >>
DictShapeUrls(output) ==
    IF IsDict(output) THEN ShapeUrl(output, "url") \o ShapeUrl(output, "video_url")
    ELSE << >>
ShapeUrls(status) ==
    ShapeUrl(status, "url") \o ShapeUrl(status, "video_url")
        \o (IF Has(status, "output")
            THEN ListShapeUrl(Item(status, "output")) \o DictShapeUrls(Item(status, "output"))
            ELSE << >>)
\* the function returned, and what it returned is no URL
YieldedNone == yielded[1][1] = "return" /\ ~Usable(yielded[1][2])

\* C12: applied to a payload that holds a URL in exactly one documented shape,
\* _extract_video_url returns that URL; applied to a payload that holds a URL
\* in no documented shape, it returns nothing.
C12_ExtractsEachShape ==
    yielded # None
    => /\ Len(ShapeUrls(given[1])) = 1
            => yielded = Some(<<"return", ShapeUrls(given[1])[1]>>)
       /\ Len(ShapeUrls(given[1])) = 0 => YieldedNone

\* C18: applied to a payload that holds a URL in at least one documented
\* shape, _extract_video_url returns the URL of the first such shape in the
\* order url, video_url, output as a list, output as an object.
C18_FirstShapeInOrder ==
    (yielded # None /\ Len(ShapeUrls(given[1])) > 0)
    => yielded = Some(<<"return", ShapeUrls(given[1])[1]>>)

\* C13: when polling has returned a payload that holds a URL in no documented
\* shape, the call has ended with a failed result that carries the ID of the
\* submitted job, and it has neither downloaded nor written a file.
C13_NoUrlFailsWithId ==
    \A t \in Calls :
        (EndsWith(t, "polled") /\ ShapeUrls(hist[t][Len(hist[t])][2]) = << >>)
        => /\ call[t].pc = "done"
           /\ Failed(t)
           /\ \A res \in ResultsOf(t) :
                 /\ res.generation_id # None
                 /\ res.generation_id = HeldId(hist[t][2][2])
           /\ ~Visited(t, "download")
           /\ wrote[t] = {}

(***************************************************************************)
(* One AIMLAPI call with the poll loop of client.wait_for_completion       *)
(* spelled out.  The client is not part of these sources; the loop follows *)
(* poll_until_complete of the specification: it queries the status at a    *)
(* fixed interval until the status is terminal or the timeout has elapsed, *)
(* fails with TimeoutError on timeout and with RemoteFailureError when the *)
(* remote reports failure.  elapsed[t] counts the poll intervals waited.   *)
(***************************************************************************)
\* the timeout, in poll intervals
MaxPolls == 2
TimeoutError == Exc("TimeoutError", "Generation timed out")
RemoteFailureError == Exc("RemoteFailureError", "Generation failed")

\* what the poll loop leaves alone
still == <<api_key, hist, given, yielded>>

\* the status is not terminal: wait one interval
PollPending(t) ==
    /\ call[t].pc = "poll"
    /\ running = Idle
    /\ elapsed[t] < MaxPolls
    /\ elapsed' = [elapsed EXCEPT ![t] = @ + 1]
    /\ UNCHANGED <<call, request, returned, fs, dirs, clock, running, wrote>>
    /\ UNCHANGED still

\* the status is succeeded: wait_for_completion returns the payload
PollSucceeded(t, status) ==
    /\ elapsed[t] < MaxPolls
    /\ AimlapiPollReturns(t, status)
    /\ UNCHANGED aside

\* the status is failed
PollFailed(t) ==
    /\ call[t].pc = "poll"
    /\ elapsed[t] < MaxPolls
    /\ AimlapiAwaitRaises(t, RemoteFailureError)
    /\ UNCHANGED aside

\* variant: on timeout the loop starts over
PollTimedOutStartsOver(t) ==
    /\ call[t].pc = "poll"
    /\ running = Idle
    /\ elapsed[t] >= MaxPolls
    /\ elapsed' = [elapsed EXCEPT ![t] = 0]
    /\ UNCHANGED <<call, request, returned, fs, dirs, clock, running, wrote>>
    /\ UNCHANGED still

\* the timeout has elapsed
PollTimedOut(t) ==
    /\ call[t].pc = "poll"
    /\ elapsed[t] >= MaxPolls
    /\ AimlapiAwaitRaises(t, TimeoutError)
    /\ UNCHANGED aside

InitPoll ==
    /\ InitCalls
    /\ api_key = None
    /\ given = None
    /\ yielded = None

NextPoll ==
    \/ \E t \in TraceCalls, d \in Durations, o \in OutputPaths :
          AimlapiGenerate(t, d, o) /\ UNCHANGED aside
    \/ \E t \in TraceCalls, r \in SubmitResponses :
          AimlapiSubmitReturns(t, r) /\ UNCHANGED aside
    \/ \E t \in TraceCalls : PollPending(t)
    \/ \E t \in TraceCalls, s \in StatusPayloads :
          PollSucceeded(t, s)
    \/ \E t \in TraceCalls : PollFailed(t)
    \/ \E t \in TraceCalls : PollTimedOut(t)
    \/ \E t \in TraceCalls, b \in Contents :
          AimlapiDownloadReturns(t, b) /\ UNCHANGED aside
    \/ \E t \in TraceCalls, e \in Exceptions :
          call[t].pc # "poll" /\ AimlapiAwaitRaises(t, e) /\ UNCHANGED aside
    \/ \E t \in TraceCalls : AimlapiSave(t) /\ UNCHANGED aside
    \/ \E t \in TraceCalls : AimlapiWrite(t) /\ UNCHANGED aside
    \/ \E t \in TraceCalls : Cancel(t) /\ UNCHANGED aside
    \/ Tick /\ UNCHANGED aside

\* the loop does not stop querying and waiting of its own accord; whether and
\* when the remote reaches a terminal status is left open
SpecPoll ==
    /\ InitPoll
    /\ [][NextPoll]_vars
    /\ \A t \in TraceCalls : WF_vars(PollPending(t)) /\ WF_vars(PollTimedOut(t))

\* C14: a call that polls leaves the poll loop; a call whose timeout has
\* elapsed without a terminal status ends; the loop waits no longer than the
\* timeout; and when the call ends on the timeout, it returns a failed result
\* whose error is the timeout's message, without having gone on to the
\* download and without having opened or written a file.
C14_TimeoutTerminates ==
    /\ \A t \in TraceCalls : (call[t].pc = "poll") ~> (call[t].pc # "poll")
    /\ \A t \in TraceCalls :
          (call[t].pc = "poll" /\ elapsed[t] >= MaxPolls)
              ~> (call[t].pc \in {"done", "cancelled"})
    /\ [](\A t \in TraceCalls : elapsed[t] <= MaxPolls)
    /\ [][\A t \in TraceCalls :
             (/\ call[t].pc = "poll" /\ elapsed[t] >= MaxPolls
              /\ call'[t].pc \notin {"poll", "cancelled"})
             => /\ call'[t].pc = "done"
                /\ Len(returned'[t]) = 1
                /\ ~returned'[t][1].success
                /\ returned'[t][1].error = Some("Generation timed out")
                /\ wrote'[t] = {}
                /\ fs' = fs]_vars

\* the remote stayed pending for the whole timeout, and the call has returned
\* the timeout as a failed result
C14_Witness ==
    \E t \in TraceCalls :
        /\ Failed(t)
        /\ elapsed[t] = MaxPolls
        /\ returned[t][1].error = Some("Generation timed out")
        /\ wrote[t] = {}

\* the rank of a position in the pipeline
Rank ==
    [submit |-> 1, poll |-> 2, download |-> 3, save |-> 4, write |-> 5,
     done |-> 6, cancelled |-> 6, raised |-> 6]
\* the position at which an event arrives, and the position a step is entered by
ArrivesAt ==
    [submitted |-> "submit", polled |-> "poll", downloaded |-> "download",
     save |-> "save", write |-> "write"]
EnteredBy ==
    [submit |-> "generate", poll |-> "submitted", download |-> "polled",
     save |-> "downloaded", write |-> "save"]

\* C15: the positions of an AIMLAPI call follow the order submit, poll
\* (extraction is the end of the poll step), download, save, write, end: the
\* call never goes back and is at each step at most once; each step is entered
\* by the success of the step before it, and each response arrives at the step
\* that awaits it.
C15_FixedOrder ==
    \A t \in Calls :
        call[t].provider = "aimlapi"
        => /\ \A i, j \in 1..Len(hist[t]) :
                 i < j => Rank[hist[t][i][3]] < Rank[hist[t][j][3]]
           /\ \A i \in 1..Len(hist[t]) :
                 hist[t][i][3] \in DOMAIN EnteredBy
                    => hist[t][i][1] = EnteredBy[hist[t][i][3]]
           /\ \A i \in 2..Len(hist[t]) :
                 hist[t][i][1] \in DOMAIN ArrivesAt
                    => hist[t][i - 1][3] = ArrivesAt[hist[t][i][1]]

\* a call has gone through every step
C15_Witness ==
    \E t \in Calls :
        /\ call[t].provider = "aimlapi"
        /\ PositionsOf(t) = <<"submit", "poll", "download", "save", "write", "done">>

\* every step of call t succeeded: the submission returned an ID, the poll a
\* payload from which the call went on to the download, the download returned
\* bytes, the file was opened, and the write left exactly these bytes in it
AllStepsSucceeded(t) ==
    /\ EventsOf(t) = <<"generate", "submitted", "polled", "downloaded", "save", "write">>
    /\ HeldId(hist[t][2][2]) # None
    /\ hist[t][3][3] = "download"
    /\ hist[t][5][2] # None
    /\ hist[t][6][2] = hist[t][4][2]

\* C16: an AIMLAPI call that has returned has returned success exactly if all
\* its steps succeeded; the successful result carries the ID of the submission
\* response and the downloaded bytes, and the file at its file_path, the path
\* opened by the save, exists and holds these bytes.
C16_SuccessIffAllSteps ==
    \A t \in Calls :
        (call[t].provider = "aimlapi" /\ call[t].pc = "done")
        => /\ Succeeded(t) <=> AllStepsSucceeded(t)
           /\ Succeeded(t)
                 => LET res == returned[t][1]
                    IN /\ res.generation_id = HeldId(hist[t][2][2])
                       /\ res.data = Some(hist[t][4][2])
                       /\ res.file_path = hist[t][5][2]
                       /\ res.file_path[1] \in DOMAIN fs
                       /\ fs[res.file_path[1]] = hist[t][4][2]

\* the response held a null id and a generation_id, and the call succeeded
\* with the generation_id and the longest download
C16_Witness ==
    \E t \in Calls :
        /\ call[t].provider = "aimlapi"
        /\ Succeeded(t)
        /\ AllStepsSucceeded(t)
        /\ Has(hist[t][2][2], "id")
        /\ returned[t][1].generation_id = Some(JStr("gen7"))
        /\ Len(returned[t][1].data[1]) = MaxLen

\* the paths at which call t may write: its output_path when one is given,
\* otherwise a file in output_dir named after the provider and a time that
\* the clock has shown
ResolvedPaths(t) ==
    IF call[t].output_path # None /\ call[t].output_path[1] # << >>
    THEN {call[t].output_path[1]}
    ELSE { Append(output_dir, call[t].provider \o "_" \o Strftime(now) \o ".mp4") :
              now \in 0..clock }

\* C17: a call opens at most one file, and only at its resolved path: the
\* given output_path, or, when none is given, a file in output_dir named
\* after the provider and the time; that path is the file_path of a
\* successful result, and no other file exists.
C17_ResolvedPath ==
    \A t \in Calls :
        /\ wrote[t] \subseteq ResolvedPaths(t)
        /\ Cardinality(wrote[t]) <= 1
        /\ call[t].file_path # None => wrote[t] = {call[t].file_path[1]}
        /\ Succeeded(t) => wrote[t] = {returned[t][1].file_path[1]}
        /\ DOMAIN fs \subseteq UNION {wrote[u] : u \in Calls}

\* a call given the empty output_path has succeeded with a file in output_dir
\* named after the provider and the time 00:00:01
C17_Witness ==
    \E t \in Calls :
        /\ Succeeded(t)
        /\ call[t].output_path = Some(<< >>)
        /\ returned[t][1].file_path =
              Some(Append(output_dir, "pollinations_20240101_000001.mp4"))
        /\ DOMAIN fs = {returned[t][1].file_path[1]}

\* C19: the request of a Pollinations call carries the Authorization header,
\* with the key as bearer token, exactly if a non-empty api_key is configured;
\* after a response with status 401 or another status outside 200..299 the
\* call opens no file and, if it returns, returns a failed result, which
\* reports the authentication failure when the status was 401 and the client
\* was closed without a further exception.
C19_AuthHeaderAndStatus ==
    \A t \in Calls :
        (call[t].provider = "pollinations" /\ Len(hist[t]) > 0)
        => /\ "Authorization" \in DOMAIN hist[t][1][2].headers
                 <=> (api_key # None /\ api_key[1] # "")
           /\ "Authorization" \in DOMAIN hist[t][1][2].headers
                 => hist[t][1][2].headers.Authorization = "Bearer " \o api_key[1]
           /\ \A i \in 1..Len(hist[t]) :
                 (/\ hist[t][i][1] = "got"
                  /\ (hist[t][i][2][1] < 200 \/ hist[t][i][2][1] > 299))
                 => /\ wrote[t] = {}
                    /\ ~Visited(t, "save")
                    /\ call[t].pc = "done" => Failed(t)
                    /\ (/\ hist[t][i][2][1] = 401
                        /\ EventsOf(t) = <<"generate", "got", "closed">>)
                       => returned[t][1].error =
                             Some(PyStr(AuthenticationError("pollinations")))

\* a call with a configured key was answered with status 401 and has returned
\* the authentication failure
C19_Witness ==
    \E t \in Calls :
        /\ call[t].provider = "pollinations"
        /\ api_key = Some("secret")
        /\ EventsOf(t) = <<"generate", "got", "closed">>
        /\ hist[t][1][2].headers.Authorization = "Bearer secret"
        /\ hist[t][2][2][1] = 401
        /\ Failed(t)
        /\ returned[t][1].error = Some(PyStr(AuthenticationError("pollinations")))

\* C20: a failed result of an AIMLAPI call carries a generation_id exactly if
\* the call ended on the poll's payload with the missing-URL error; the
\* results of a missing ID and of every exception carry none.
C20_IdOnlyOnMissingUrl ==
    \A t \in Calls :
        (call[t].provider = "aimlapi" /\ Failed(t))
        => (returned[t][1].generation_id # None
               <=> (/\ EndsWith(t, "polled")
                    /\ returned[t][1].error = Some("No video URL in response")))

\* the download raised after the ID was obtained and the poll had returned a
\* URL, and the failed result carries no generation_id
C20_Witness ==
    \E t \in Calls :
        /\ call[t].provider = "aimlapi"
        /\ Failed(t)
        /\ EventsOf(t) = <<"generate", "submitted", "polled", "raised">>
        /\ HeldId(hist[t][2][2]) # None
        /\ returned[t][1].generation_id = None

====
